---------------------------- MODULE Spec2Model ----------------------------
(***************************************************************************)
(* A model of jperson/seth: the contract ABI encoder of send.go            *)
(* (typecheck, ABIEncode, CallOpts.EncodeCall, the EncodeABI methods),     *)
(* Client.StorageAt, and the command line's block specifier parser         *)
(* blocknum.                                                               *)
(*                                                                         *)
(* Strings are sequences of one-character strings, byte slices are         *)
(* sequences of 0..255.  A Go panic is the result Panic: it carries no     *)
(* bytes.  An EtherType value is a record of its dynamic type (kind) and   *)
(* its value, in a field named after the type: addr, int, data, addrs or   *)
(* ints; the kinds are the five types of the library that implement the    *)
(* interface.                                                              *)
(***************************************************************************)
EXTENDS Integers, Sequences, FiniteSets, TLC

VARIABLES
    fn,      \* ABIEncode / EncodeCall: the function signature string
    args,    \* ABIEncode / EncodeCall: the argument list
    c,       \* the CallOpts the call is made on
    ret,     \* what ABIEncode handed back to its caller
    pc,      \* position of the encoder's caller
    src,     \* who supplies the block selector: the command line or a library caller
    tok,     \* the command line's block specifier
    block,   \* the int64 block selector
    addr,    \* StorageAt: the contract address
    offset,  \* StorageAt: the storage slot
    rpc,     \* the request handed to Client.do
    bpc      \* position of the storage reader

vars == <<fn, args, c, ret, pc, src, tok, block, addr, offset, rpc, bpc>>
encVars == <<fn, args, c, ret, pc>>
blockVars == <<src, tok, block, addr, offset, rpc, bpc>>

---------------------------------------------------------------------------
(* Bounds of the model. *)

\* longest argument list passed to ABIEncode
MaxArgs == 2
\* longest AddrSlice / IntSlice
MaxSliceLen == 2
\* longest signature string enumerated character by character
MaxSigLen == 4
\* longest block specifier enumerated character by character
MaxTokLen == 3
\* largest magnitude of a block selector passed to StorageAt directly
MaxBlock == 120

(* Program constants. *)

\* an ABI word: var word [32]byte
WordLen == 32
\* type Address [20]byte, copied to word[12:]
AddrLen == 20
\* buf := make([]byte, 4, ...): the selector
SelLen == 4
\* binary.BigEndian.PutUint64(w[32-8:], ...)
U64Len == 8

---------------------------------------------------------------------------
(* Byte slices. *)

Zeros(n) == [j \in 1..n |-> 0]

\* Go's copy(dst[off:], from): as many bytes as fit, the rest of dst kept
Copy(dst, off, from) ==
    [j \in 1..Len(dst) |->
        IF j > off /\ j - off <= Len(from) THEN from[j - off] ELSE dst[j]]

RECURSIVE Reverse(_)
Reverse(s) == IF s = <<>> THEN <<>> ELSE Append(Reverse(Tail(s)), Head(s))

RECURSIVE Shr8(_, _)
Shr8(n, k) == IF k = 0 THEN n ELSE Shr8(n \div 256, k - 1)

\* binary.BigEndian.PutUint64: the 8 bytes of n, most significant first
PutUint64(n) == [j \in 1..U64Len |-> Shr8(n, U64Len - j) % 256]

\* big.Int.Bytes(): the magnitude, big-endian, no leading zero byte.  The
\* magnitude is held as big.Int holds it: little-endian limbs, the top limb
\* non-zero.
Bytes(i) == Reverse(i.abs)

(* Results of a call that may panic. *)
Ok(v) == [ok |-> TRUE, v |-> v]
Panic == [ok |-> FALSE, v |-> <<>>]

---------------------------------------------------------------------------
(* EncodeABI of the five types. *)

AddressEncodeABI(a, v) == Ok(v \o Copy(Zeros(WordLen), WordLen - AddrLen, a))

\* the slip of keeping the low 32 bytes of a magnitude that is too long
IntEncodeABI_Truncating(i, v) ==
    LET bits == Bytes(i)
        low == IF Len(bits) > WordLen
               THEN SubSeq(bits, Len(bits) - WordLen + 1, Len(bits))
               ELSE bits
    IN Ok(v \o Copy(Zeros(WordLen), WordLen - Len(low), low))

IntEncodeABI(i, v) ==
    LET bits == Bytes(i) IN
    IF Len(bits) > WordLen
    THEN Panic
    ELSE Ok(v \o Copy(Zeros(WordLen), WordLen - Len(bits), bits))

\* the slip of appending the data as it is, without filling the word
DataEncodeABI_Unpadded(d, v) == IF Len(d) > WordLen THEN Panic ELSE Ok(v \o d)

DataEncodeABI(d, v) ==
    IF Len(d) > WordLen THEN Panic ELSE Ok(v \o Copy(Zeros(WordLen), 0, d))

padint(i, v) == v \o Copy(Zeros(WordLen), WordLen - U64Len, PutUint64(i))

RECURSIVE IntSliceEncodeABI(_, _)
IntSliceEncodeABI(s, v) ==
    IF s = <<>> THEN Ok(v)
    ELSE LET r == IntEncodeABI(Head(s), v) IN
         IF r.ok THEN IntSliceEncodeABI(Tail(s), r.v) ELSE Panic

RECURSIVE AddrSliceEncodeABI(_, _)
AddrSliceEncodeABI(s, v) ==
    IF s = <<>> THEN Ok(v)
    ELSE LET r == AddressEncodeABI(Head(s), v) IN
         IF r.ok THEN AddrSliceEncodeABI(Tail(s), r.v) ELSE Panic

\* the type switch of an interface call a.EncodeABI(v)
EncodeABI(a, v) ==
    CASE a.kind = "Address" -> AddressEncodeABI(a.addr, v)
      [] a.kind = "Int" -> IntEncodeABI(a.int, v)
      [] a.kind = "Data" -> DataEncodeABI(a.data, v)
      [] a.kind = "IntSlice" -> IntSliceEncodeABI(a.ints, v)
      [] a.kind = "AddrSlice" -> AddrSliceEncodeABI(a.addrs, v)

\* a.(EtherSlice): the types with a Len method
IsEtherSlice(a) == a.kind \in {"IntSlice", "AddrSlice"}

\* the Len methods of IntSlice and AddrSlice
SliceLen(a) == IF a.kind = "IntSlice" THEN Len(a.ints) ELSE Len(a.addrs)

---------------------------------------------------------------------------
(* Strings: the functions of package strings that typecheck uses. *)

\* const illegal: space, tab, newline, backspace ("\\b" stands for the one
\* character \b) and the punctuation of the constant
illegal ==
    {" ", "\t", "\n", "\\b", "-", "+", "/", "~", "!", "@", "#", "$", "%",
     "^", "&", "*", "=", "|", ";", ":", "\"", "<", ">", "\\", "?"}

\* strings.ContainsAny(s, chars)
ContainsAny(s, chars) == \E j \in 1..Len(s) : s[j] \in chars

\* strings.IndexByte(s, ch): the 0-based index of the first ch, or -1
IndexByte(s, ch) ==
    IF \E j \in 1..Len(s) : s[j] = ch
    THEN (CHOOSE j \in 1..Len(s) : s[j] = ch /\ \A k \in 1..(j - 1) : s[k] # ch) - 1
    ELSE -1

\* the Go slice expression s[lo:hi], 0-based and half-open
Slice(s, lo, hi) == SubSeq(s, lo + 1, hi)

\* strings.Contains(s, ",")
ContainsComma(s) == IndexByte(s, ",") # -1

\* strings.Split(s, ","): one piece more than there are commas
RECURSIVE Split(_)
Split(s) ==
    LET j == IndexByte(s, ",") IN
    IF j = -1 THEN <<s>>
    ELSE <<Slice(s, 0, j)>> \o Split(Slice(s, j + 1, Len(s)))

\* strings.HasSuffix(s, suffix)
HasSuffix(s, suffix) ==
    Len(s) >= Len(suffix)
    /\ SubSeq(s, Len(s) - Len(suffix) + 1, Len(s)) = suffix

(* The type names the switch of typecheck knows. *)
addressT == <<"a", "d", "d", "r", "e", "s", "s">>
uintT == <<"u", "i", "n", "t">>
uint256T == <<"u", "i", "n", "t", "2", "5", "6">>
intT == <<"i", "n", "t">>
int256T == <<"i", "n", "t", "2", "5", "6">>
bytes32T == <<"b", "y", "t", "e", "s", "3", "2">>
sliceSuffix == <<"[", "]">>

---------------------------------------------------------------------------
(* typecheck: TRUE when it returns, FALSE when it panics. *)

\* one iteration of the loop over argstrings: the switch on the type name
ArgTypeOk(t, a) ==
    CASE t = addressT -> a.kind = "Address"
      [] t \in {uintT, uint256T, intT, int256T} -> a.kind = "Int"
      [] t = bytes32T -> a.kind = "Data" \/ a.kind = "Int"
      [] OTHER -> HasSuffix(t, sliceSuffix) => IsEtherSlice(a)

\* argstrings stays nil unless the text between the parentheses holds a comma
Argstrings(f, lparen, rparen) ==
    IF ContainsComma(Slice(f, lparen + 1, rparen))
    THEN Split(Slice(f, lparen + 1, rparen))
    ELSE <<>>

typecheck(f, a) ==
    IF ContainsAny(f, illegal) THEN FALSE
    ELSE LET lparen == IndexByte(f, "(") IN
         IF lparen = -1 THEN FALSE
         ELSE LET rparen == IndexByte(f, ")") IN
              IF rparen # Len(f) - 1 THEN FALSE
              ELSE LET argstrings == Argstrings(f, lparen, rparen) IN
                   IF ContainsComma(Slice(f, lparen + 1, rparen))
                      /\ Len(argstrings) # Len(a)
                   THEN FALSE
                   ELSE \A j \in 1..Len(argstrings) : ArgTypeOk(argstrings[j], a[j])

---------------------------------------------------------------------------
(* ABIEncode. *)

\* HashString (Keccak-256 of the signature) is not part of send.go: any
\* fixed function from strings to 32 bytes stands for it.
HashString(f) ==
    [j \in 1..WordLen |->
        (Len(f) * 31 + j * 7 + (IndexByte(f, "(") + 1) * 13
         + (IndexByte(f, ",") + 1) * 5) % 256]

\* the first loop: static values and the offset words of the slices
RECURSIVE StaticLoop(_, _, _, _)
StaticLoop(a, k, buf, dynoff) ==
    IF k > Len(a) THEN Ok(buf)
    ELSE IF IsEtherSlice(a[k])
         THEN StaticLoop(a, k + 1, padint(dynoff, buf), dynoff + WordLen)
         ELSE LET r == EncodeABI(a[k], buf) IN
              IF r.ok THEN StaticLoop(a, k + 1, r.v, dynoff) ELSE Panic

\* the second loop: per slice its length word and its elements
RECURSIVE DynLoop(_, _)
DynLoop(dyn, buf) ==
    IF dyn = <<>> THEN Ok(buf)
    ELSE LET r == EncodeABI(Head(dyn), padint(SliceLen(Head(dyn)), buf)) IN
         IF r.ok THEN DynLoop(Tail(dyn), r.v) ELSE Panic

ABIEncode(f, a) ==
    IF ~typecheck(f, a) THEN Panic
    ELSE LET buf == Copy(Zeros(SelLen), 0, Slice(HashString(f), 0, SelLen))
             r == StaticLoop(a, 1, buf, Len(a) * WordLen)
         IN IF r.ok THEN DynLoop(SelectSeq(a, IsEtherSlice), r.v) ELSE Panic

---------------------------------------------------------------------------
(* Block specifiers: strconv.ParseInt(s, 0, 64) and blocknum. *)

digits == <<"0", "1", "2", "3", "4", "5", "6", "7", "8", "9">>
letters ==
    <<"a", "b", "c", "d", "e", "f", "g", "h", "i", "j", "k", "l", "m",
      "n", "o", "p", "q", "r", "s", "t", "u", "v", "w", "x", "y", "z">>
capitals ==
    <<"A", "B", "C", "D", "E", "F", "G", "H", "I", "J", "K", "L", "M",
      "N", "O", "P", "Q", "R", "S", "T", "U", "V", "W", "X", "Y", "Z">>

IndexIn(tab, ch) == CHOOSE j \in 1..Len(tab) : tab[j] = ch
IsIn(tab, ch) == \E j \in 1..Len(tab) : tab[j] = ch

\* strconv's lower(c): c | ('x' - 'X')
lower(ch) == IF IsIn(capitals, ch) THEN letters[IndexIn(capitals, ch)] ELSE ch

IsDigit(ch) == IsIn(digits, ch)
IsLetter(ch) == IsIn(letters, lower(ch))

\* the value of a digit character, as ParseUint's loop computes it
DigitVal(ch) ==
    IF IsDigit(ch) THEN IndexIn(digits, ch) - 1
    ELSE IndexIn(letters, lower(ch)) - 1 + 10

\* strconv.underscoreOK: underscores only between digits or after the prefix.
\* saw is "^" at the start, "0" after a digit, "_" after an underscore and
\* "!" after anything else.
RECURSIVE UnderscoreScan(_, _, _, _)
UnderscoreScan(s, j, saw, hex) ==
    IF j > Len(s) THEN saw # "_"
    ELSE IF IsDigit(s[j]) \/ (hex /\ IsLetter(s[j]) /\ DigitVal(s[j]) < 16)
         THEN UnderscoreScan(s, j + 1, "0", hex)
         ELSE IF s[j] = "_"
              THEN saw = "0" /\ UnderscoreScan(s, j + 1, "_", hex)
              ELSE saw # "_" /\ UnderscoreScan(s, j + 1, "!", hex)

underscoreOK(s0) ==
    LET s == IF Len(s0) >= 1 /\ s0[1] \in {"-", "+"} THEN Tail(s0) ELSE s0
        prefixed == Len(s) >= 2 /\ s[1] = "0" /\ lower(s[2]) \in {"b", "o", "x"}
    IN IF prefixed
       THEN UnderscoreScan(s, 3, "0", lower(s[2]) = "x")
       ELSE UnderscoreScan(s, 1, "^", FALSE)

\* ParseUint's loop over the digits: the value, or -1 for a syntax error
RECURSIVE DigitLoop(_, _, _, _)
DigitLoop(s, j, base, n) ==
    IF j > Len(s) THEN n
    ELSE IF s[j] = "_" THEN DigitLoop(s, j + 1, base, n)
         ELSE IF ~(IsDigit(s[j]) \/ IsLetter(s[j])) THEN -1
              ELSE IF DigitVal(s[j]) >= base THEN -1
                   ELSE DigitLoop(s, j + 1, base, n * base + DigitVal(s[j]))

\* the slip of parsing in base 10 whatever the prefix
ParseUint_DecimalOnly(s) ==
    IF s = <<>> THEN [err |-> TRUE, n |-> 0]
    ELSE LET n == DigitLoop(s, 1, 10, 0) IN
         IF n = -1 \/ (ContainsAny(s, {"_"}) /\ ~underscoreOK(s))
         THEN [err |-> TRUE, n |-> 0]
         ELSE [err |-> FALSE, n |-> n]

\* strconv.ParseUint(s, 0, 64): [err, n].  The range error needs a value of
\* 2^64 or more, which no string of the lengths enumerated here denotes.
ParseUint(s) ==
    IF s = <<>> THEN [err |-> TRUE, n |-> 0]
    ELSE LET pre == s[1] = "0"
             long == Len(s) >= 3
             base == IF ~pre THEN 10
                     ELSE IF long /\ lower(s[2]) = "b" THEN 2
                     ELSE IF long /\ lower(s[2]) = "o" THEN 8
                     ELSE IF long /\ lower(s[2]) = "x" THEN 16
                     ELSE 8
             rest == IF ~pre THEN s
                     ELSE IF long /\ lower(s[2]) \in {"b", "o", "x"}
                          THEN Slice(s, 2, Len(s))
                          ELSE Slice(s, 1, Len(s))
             n == DigitLoop(rest, 1, base, 0)
         IN IF n = -1 THEN [err |-> TRUE, n |-> 0]
            ELSE IF ContainsAny(rest, {"_"}) /\ ~underscoreOK(s)
                 THEN [err |-> TRUE, n |-> 0]
                 ELSE [err |-> FALSE, n |-> n]

\* strconv.ParseInt(s, 0, 64): the sign, then ParseUint
ParseInt(s) ==
    IF s = <<>> THEN [err |-> TRUE, n |-> 0]
    ELSE LET neg == s[1] = "-"
             u == ParseUint(IF s[1] \in {"+", "-"} THEN Tail(s) ELSE s)
         IN IF u.err THEN u
            ELSE [err |-> FALSE, n |-> IF neg THEN -u.n ELSE u.n]

\* seth.Latest and seth.Pending: the block selectors of the library that
\* stand for the latest and the pending block
Latest == -1
Pending == -2

earliestS == <<"e", "a", "r", "l", "i", "e", "s", "t">>
latestS == <<"l", "a", "t", "e", "s", "t">>
pendingS == <<"p", "e", "n", "d", "i", "n", "g">>

\* blocknum: [ok, n]; ok is FALSE when fatalf ends the process
blocknum(s) ==
    CASE s = earliestS -> [ok |-> TRUE, n |-> 0]
      [] s = latestS -> [ok |-> TRUE, n |-> Latest]
      [] s = pendingS -> [ok |-> TRUE, n |-> Pending]
      [] OTHER -> LET r == ParseInt(s) IN
                  IF r.err THEN [ok |-> FALSE, n |-> 0]
                  ELSE [ok |-> TRUE, n |-> r.n]

---------------------------------------------------------------------------
(* Client.StorageAt. *)

RECURSIVE FormatUint(_)
FormatUint(n) ==
    IF n < 10 THEN <<digits[n + 1]>>
    ELSE Append(FormatUint(n \div 10), digits[(n % 10) + 1])

\* json.Marshal of an int64: its decimal digits, "-" first when negative
MarshalInt64(n) == IF n < 0 THEN <<"-">> \o FormatUint(-n) ELSE FormatUint(n)

\* a JSON string literal: the text between double quotes
Quoted(s) == <<"\"">> \o s \o <<"\"">>

\* rawlatest and rawpending, the JSON string literals of the library
rawlatest == Quoted(latestS)
rawpending == Quoted(pendingS)

hexdigits ==
    <<"0", "1", "2", "3", "4", "5", "6", "7", "8", "9", "a", "b", "c", "d", "e", "f">>

RECURSIVE HexOf(_)
HexOf(bs) ==
    IF bs = <<>> THEN <<>>
    ELSE <<hexdigits[(Head(bs) \div 16) + 1], hexdigits[(Head(bs) % 16) + 1]>>
         \o HexOf(Tail(bs))

\* json.Marshal of an *Address or a *Hash: "0x" and the bytes in hex, quoted
MarshalBytes(bs) == Quoted(<<"0", "x">> \o HexOf(bs))

\* the slip of exchanging the two cases of the switch
BlockParam_Swapped(b) ==
    CASE b = -2 -> rawlatest
      [] b = -1 -> rawpending
      [] OTHER -> MarshalInt64(b)

\* the switch on block
BlockParam(b) ==
    CASE b = -2 -> rawpending
      [] b = -1 -> rawlatest
      [] OTHER -> MarshalInt64(b)

\* the method and the parameters StorageAt hands to c.do
StorageAtRequest(a, o, b) ==
    [method |-> "eth_getStorageAt",
     params |-> <<MarshalBytes(a), MarshalBytes(o), BlockParam(b)>>]

---------------------------------------------------------------------------
(* The inputs the model draws from. *)

SeqsUpTo(S, n) == UNION {[1..k -> S] : k \in 0..n}

AddressArg(x) == [kind |-> "Address", addr |-> x]
IntArg(x) == [kind |-> "Int", int |-> x]
DataArg(x) == [kind |-> "Data", data |-> x]
AddrSliceArg(x) == [kind |-> "AddrSlice", addrs |-> x]
IntSliceArg(x) == [kind |-> "IntSlice", ints |-> x]

\* a pointer that may be nil: <<>> is nil, <<x>> points to x
Nil == <<>>

addrA == [j \in 1..AddrLen |-> j]
addrB == [j \in 1..AddrLen |-> IF j = AddrLen THEN 1 ELSE 0]

\* 258, 2^256 - 1, 2^256 and -1
intSmall == [neg |-> FALSE, abs |-> <<2, 1>>]
intMax == [neg |-> FALSE, abs |-> [j \in 1..WordLen |-> 255]]
intOver == [neg |-> FALSE, abs |-> Append(Zeros(WordLen), 1)]
intNeg == [neg |-> TRUE, abs |-> <<1>>]

dataShort == <<170, 187>>
dataOver == [j \in 1..(WordLen + 1) |-> j]

AddrSlices == {[j \in 1..n |-> addrA] : n \in 0..MaxSliceLen}

\* slices of small integers, and the same with an overflowing last element
IntSlices ==
    {[j \in 1..n |-> intSmall] : n \in 0..MaxSliceLen}
    \cup {[j \in 1..n |-> IF j = n THEN intOver ELSE intSmall] : n \in 1..MaxSliceLen}

ArgVals ==
    {AddressArg(addrA)}
    \cup {IntArg(i) : i \in {intSmall, intMax, intOver, intNeg}}
    \cup {DataArg(d) : d \in {dataShort, dataOver}}
    \cup {AddrSliceArg(s) : s \in AddrSlices}
    \cup {IntSliceArg(s) : s \in IntSlices}

ArgLists == SeqsUpTo(ArgVals, MaxArgs)

\* one value of each kind
KindVals ==
    {AddressArg(addrA), IntArg(intSmall), DataArg(dataShort),
     AddrSliceArg(<<addrA>>), IntSliceArg(<<intSmall>>)}

KindLists == SeqsUpTo(KindVals, MaxArgs)

boolT == <<"b", "o", "o", "l">>

TypeNames ==
    {addressT, uintT, uint256T, intT, int256T, bytes32T, boolT,
     addressT \o sliceSuffix, uint256T \o sliceSuffix}

RECURSIVE Join(_)
Join(ts) ==
    IF ts = <<>> THEN <<>>
    ELSE IF Len(ts) = 1 THEN ts[1]
         ELSE ts[1] \o <<",">> \o Join(Tail(ts))

\* the signature f(t1,...,tn)
Sig(ts) == <<"f", "(">> \o Join(ts) \o <<")">>

\* the type name a caller writes for a value
TypeOf(a) ==
    CASE a.kind = "Address" -> addressT
      [] a.kind = "Int" -> uint256T
      [] a.kind = "Data" -> bytes32T
      [] a.kind = "AddrSlice" -> addressT \o sliceSuffix
      [] a.kind = "IntSlice" -> uint256T \o sliceSuffix

SigFor(a) == Sig([j \in 1..Len(a) |-> TypeOf(a[j])])

\* with the values of ArgLists: the matching signature, a fixed one and a
\* string that is no signature
EncSigs(a) == {SigFor(a), Sig(<<addressT, uint256T>>), <<"f">>}

\* every short string over the characters that matter to the parser of the
\* signature, and every signature of up to MaxArgs known type names
SigChars == {"f", "(", ")", ",", " "}
SigInputs ==
    SeqsUpTo(SigChars, MaxSigLen) \cup {Sig(ts) : ts \in SeqsUpTo(TypeNames, MaxArgs)}

oldData == <<222, 173, 190, 239>>

\* the zero CallOpts, and one that a caller has filled in
CallOptsInputs ==
    {[From |-> Nil, To |-> Nil, Gas |-> Nil, GasPrice |-> Nil, Value |-> Nil,
      Data |-> <<>>],
     [From |-> <<addrB>>, To |-> <<addrA>>, Gas |-> <<intSmall>>, GasPrice |-> Nil,
      Value |-> Nil, Data |-> oldData]}

TokChars == {"0", "1", "2", "8", "f", "x", "X", "b", "o", "_", "-", "+"}
bogusS == <<"b", "o", "g", "u", "s">>
hex10S == <<"0", "x", "1", "0">>
Tokens ==
    SeqsUpTo(TokChars, MaxTokLen) \cup {earliestS, latestS, pendingS, bogusS, hex10S}

Blocks == (-MaxBlock)..MaxBlock
Addrs == {addrA, addrB}
Slots == {Zeros(WordLen), [j \in 1..WordLen |-> IF j = WordLen THEN 3 ELSE 0]}

NoRequest == [method |-> "", params |-> <<>>, err |-> FALSE]

---------------------------------------------------------------------------
(* The encoder and its callers. *)

EncIdle ==
    /\ fn = <<>> /\ args = <<>> /\ ret = <<>> /\ pc = "idle"
    /\ c = [From |-> Nil, To |-> Nil, Gas |-> Nil, GasPrice |-> Nil, Value |-> Nil,
            Data |-> <<>>]

BlockIdle ==
    /\ src = "none" /\ tok = <<>> /\ block = 0 /\ addr = <<>> /\ offset = <<>>
    /\ rpc = NoRequest /\ bpc = "idle"

\* a caller about to encode values of every shape
InitEnc ==
    /\ args \in ArgLists
    /\ fn \in EncSigs(args)
    /\ c \in CallOptsInputs
    /\ ret = <<>>
    /\ pc = "ready"
    /\ BlockIdle

\* a caller about to encode under signature strings of every shape
InitSig ==
    /\ fn \in SigInputs
    /\ args \in KindLists
    /\ c \in CallOptsInputs
    /\ ret = <<>>
    /\ pc = "ready"
    /\ BlockIdle

\* a direct call of ABIEncode: ret is <<bytes>> when it returns
CallABIEncode ==
    /\ pc = "ready"
    /\ LET r == ABIEncode(fn, args) IN
       /\ ret' = IF r.ok THEN <<r.v>> ELSE <<>>
       /\ pc' = IF r.ok THEN "ABIEncode returned" ELSE "ABIEncode panicked"
    /\ UNCHANGED <<fn, args, c, blockVars>>

\* the slip of assigning Data whatever ABIEncode did
EncodeCall_AssignsOnPanic ==
    /\ pc = "ready"
    /\ LET r == ABIEncode(fn, args) IN
       /\ ret' = IF r.ok THEN <<r.v>> ELSE <<>>
       /\ c' = [c EXCEPT !.Data = r.v]
       /\ pc' = IF r.ok THEN "EncodeCall returned" ELSE "EncodeCall panicked"
    /\ UNCHANGED <<fn, args, blockVars>>

\* c.Data = Data(ABIEncode(fn, args...)): the assignment is not reached when
\* ABIEncode panics
EncodeCall ==
    /\ pc = "ready"
    /\ LET r == ABIEncode(fn, args) IN
       /\ ret' = IF r.ok THEN <<r.v>> ELSE <<>>
       /\ c' = IF r.ok THEN [c EXCEPT !.Data = r.v] ELSE c
       /\ pc' = IF r.ok THEN "EncodeCall returned" ELSE "EncodeCall panicked"
    /\ UNCHANGED <<fn, args, blockVars>>

NextEnc == CallABIEncode \/ EncodeCall

SpecEnc == InitEnc /\ [][NextEnc]_vars
SpecSig == InitSig /\ [][NextEnc]_vars

---------------------------------------------------------------------------
(* The storage reader: the command line resolves a block specifier and     *)
(* reads a slot, or a library caller passes a selector of its own.         *)

InitBlock ==
    /\ addr \in Addrs
    /\ offset \in Slots
    /\ rpc = NoRequest
    /\ \/ src = "cli" /\ tok \in Tokens /\ block = 0 /\ bpc = "start"
       \/ src = "lib" /\ tok = <<>> /\ block \in Blocks /\ bpc = "resolved"
    /\ EncIdle

Blocknum ==
    /\ bpc = "start"
    /\ LET r == blocknum(tok) IN
       /\ block' = r.n
       /\ bpc' = IF r.ok THEN "resolved" ELSE "fatal"
    /\ UNCHANGED <<src, tok, addr, offset, rpc, encVars>>

\* the transport answers or fails; either way the request has been sent
StorageAt ==
    /\ bpc = "resolved"
    /\ \E e \in BOOLEAN :
          rpc' = [method |-> StorageAtRequest(addr, offset, block).method,
                  params |-> StorageAtRequest(addr, offset, block).params,
                  err |-> e]
    /\ bpc' = "sent"
    /\ UNCHANGED <<src, tok, block, addr, offset, encVars>>

NextBlock == Blocknum \/ StorageAt

SpecBlock == InitBlock /\ [][NextBlock]_vars

---------------------------------------------------------------------------
(* What the claims speak of. *)

Returned == pc \in {"ABIEncode returned", "EncodeCall returned"}
Panicked == pc \in {"ABIEncode panicked", "EncodeCall panicked"}

\* the 32 bytes at byte offset off of the argument area, which starts right
\* after the selector
WordAt(out, off) == SubSeq(out, SelLen + off + 1, SelLen + off + WordLen)

\* the number a big-endian byte string denotes
RECURSIVE BEValue(_)
BEValue(w) ==
    IF w = <<>> THEN 0 ELSE BEValue(SubSeq(w, 1, Len(w) - 1)) * 256 + w[Len(w)]

\* the bytes the slices before argument k occupy in the dynamic area
RECURSIVE DynBefore(_, _)
DynBefore(a, k) ==
    IF k <= 1 THEN 0
    ELSE DynBefore(a, k - 1)
         + (IF IsEtherSlice(a[k - 1]) THEN WordLen * (1 + SliceLen(a[k - 1])) ELSE 0)

\* where the content of slice argument k starts: after the static area and
\* after the content of the slices before it
ContentStart(a, k) == WordLen * Len(a) + DynBefore(a, k)

\* the word whose value is the magnitude abs (limb j weighs 256^(j-1))
MagnitudeWord(abs) ==
    [j \in 1..WordLen |->
        IF WordLen - j + 1 <= Len(abs) THEN abs[WordLen - j + 1] ELSE 0]

\* the text between the first "(" and the closing ")" of a signature that
\* ends in ")"
ParenSegment(f) == Slice(f, IndexByte(f, "(") + 1, Len(f) - 1)

DeclaredTypes(f) == Split(ParenSegment(f))

\* the rule of the specification for one declared type
DeclaredTypeAccepts(t, a) ==
    /\ t = addressT => a.kind = "Address"
    /\ t \in {uintT, uint256T, intT, int256T} => a.kind = "Int"
    /\ t = bytes32T => a.kind \in {"Data", "Int"}
    /\ HasSuffix(t, sliceSuffix) => a.kind \in {"AddrSlice", "IntSlice"}

Count(s, ch) == Cardinality({j \in 1..Len(s) : s[j] = ch})

\* an argument no word can hold
Oversized(a) ==
    CASE a.kind = "Int" -> Len(a.int.abs) > WordLen
      [] a.kind = "Data" -> Len(a.data) > WordLen
      [] a.kind = "IntSlice" -> \E j \in 1..Len(a.ints) : Len(a.ints[j].abs) > WordLen
      [] OTHER -> FALSE

\* C1: after every successful ABIEncode the offset word of every slice
\* argument holds the distance from the end of the selector to that
\* argument's element-count word.
C1_OffsetsPointToContent ==
    Returned =>
        \A k \in 1..Len(args) :
            IsEtherSlice(args[k]) =>
                BEValue(WordAt(ret[1], WordLen * (k - 1))) = ContentStart(args, k)

\* C2: ABIEncode aborts whenever an argument does not match its declared
\* type, also under a signature of one parameter.
C2_TypeMismatchAborts ==
    Returned =>
        \A k \in 1..Len(args) :
            k <= Len(DeclaredTypes(fn)) => DeclaredTypeAccepts(DeclaredTypes(fn)[k], args[k])

\* C3: ABIEncode aborts whenever the number of declared parameter types
\* differs from the number of arguments; a segment without a comma declares
\* one parameter (or none, when it is empty).
C3_ArityMismatchAborts ==
    Returned =>
        IF ParenSegment(fn) = <<>>
        THEN Len(args) \in {0, 1}
        ELSE Len(args) = Len(DeclaredTypes(fn))

\* C4: every byte string ABIEncode returns is the 4-byte selector followed
\* by whole 32-byte words, and is the selector alone for no arguments.
C4_SelectorAndWholeWords ==
    ret # <<>> =>
        /\ Len(ret[1]) >= SelLen
        /\ SubSeq(ret[1], 1, SelLen) = SubSeq(HashString(fn), 1, SelLen)
        /\ (Len(ret[1]) - SelLen) % WordLen = 0
        /\ (args = <<>> => Len(ret[1]) = SelLen)

C4_Witness ==
    /\ pc = "ABIEncode returned"
    /\ Len(args) = 2
    /\ args[1].kind = "Data"
    /\ args[2].kind = "IntSlice" /\ Len(args[2].ints) = 2
    /\ Len(ret[1]) = SelLen + 5 * WordLen

\* C5: a call that fails, and every call with an argument no word can hold
\* fails, hands back no bytes and leaves every field of the CallOpts as it
\* was.
C5_FailureLeavesNothing ==
    [][(pc = "ready" /\ pc' # "ready") =>
          ((Panicked' \/ \E k \in 1..Len(args) : Oversized(args[k])) =>
              (Panicked' /\ ret' = <<>> /\ c' = c))]_vars

C5_Witness ==
    /\ pc = "EncodeCall panicked"
    /\ fn = SigFor(args)
    /\ Len(args) = 2
    /\ args[1] = IntArg(intSmall)
    /\ args[2] = IntSliceArg(<<intSmall, intOver>>)
    /\ c.Data = oldData
    /\ ret = <<>>

\* C6: a successful encoding holds, for every Int argument and every element
\* of an IntSlice, one word with the magnitude right-aligned and zeros to
\* its left, and no encoding succeeds with an Int of more than 32 bytes.
C6_IntIsOneWordOrFatal ==
    Returned =>
        \A k \in 1..Len(args) :
            /\ args[k].kind = "Int" =>
                  /\ Len(args[k].int.abs) <= WordLen
                  /\ WordAt(ret[1], WordLen * (k - 1)) = MagnitudeWord(args[k].int.abs)
            /\ args[k].kind = "IntSlice" =>
                  \A e \in 1..Len(args[k].ints) :
                      /\ Len(args[k].ints[e].abs) <= WordLen
                      /\ WordAt(ret[1], ContentStart(args, k) + WordLen * e)
                            = MagnitudeWord(args[k].ints[e].abs)

C6_Witness ==
    /\ pc = "ABIEncode returned"
    /\ Len(args) = 2
    /\ args[1] = IntArg(intMax)
    /\ args[2] = IntSliceArg(<<intSmall, intSmall>>)

\* C9: ABIEncode returns only under a signature with exactly one "(", whose
\* only ")" is its last character, and with no whitespace or other illegal
\* character.
C9_MalformedSignatureAborts ==
    Returned =>
        /\ Count(fn, "(") = 1
        /\ Count(fn, ")") = 1
        /\ fn[Len(fn)] = ")"
        /\ ~ContainsAny(fn, illegal)

---------------------------------------------------------------------------
(* Block specifiers, as the claims describe them. *)

Resolved == src = "cli" /\ bpc \in {"resolved", "sent"}
Fatal == src = "cli" /\ bpc = "fatal"

Unsigned(s) == IF s # <<>> /\ s[1] \in {"+", "-"} THEN Tail(s) ELSE s

IsHexChar(ch) == IsDigit(ch) \/ (IsLetter(ch) /\ DigitVal(ch) < 16)

\* one or more decimal digits after an optional sign
IsDecimalToken(s) ==
    Unsigned(s) # <<>> /\ \A j \in 1..Len(Unsigned(s)) : IsDigit(Unsigned(s)[j])

\* 0x and one or more hexadecimal digits after an optional sign
IsHexToken(s) ==
    LET u == Unsigned(s) IN
    /\ Len(u) >= 3
    /\ u[1] = "0" /\ lower(u[2]) = "x"
    /\ \A j \in 3..Len(u) : IsHexChar(u[j])

(* An integer literal of the Go language, read from its grammar: a base     *)
(* prefix 0b, 0o or 0x (a bare leading 0 means octal too), digits of that   *)
(* base, and single underscores each after a digit or the prefix and before *)
(* a digit.                                                                 *)
LitPrefixed(u) == Len(u) >= 2 /\ u[1] = "0" /\ lower(u[2]) \in {"b", "o", "x"}

LitBase(u) ==
    IF LitPrefixed(u)
    THEN (CASE lower(u[2]) = "b" -> 2 [] lower(u[2]) = "o" -> 8 [] OTHER -> 16)
    ELSE IF u[1] = "0" THEN 8 ELSE 10

\* the first position after the base prefix
LitFrom(u) == IF LitPrefixed(u) THEN 3 ELSE 1

IsLitDigit(u, j) ==
    (IsDigit(u[j]) \/ IsLetter(u[j])) /\ DigitVal(u[j]) < LitBase(u)

IsGoIntLiteral(s) ==
    LET u == Unsigned(s) IN
    /\ u # <<>>
    /\ \E j \in LitFrom(u)..Len(u) : IsLitDigit(u, j)
    /\ \A j \in LitFrom(u)..Len(u) :
          \/ IsLitDigit(u, j)
          \/ /\ u[j] = "_"
             /\ j < Len(u) /\ IsLitDigit(u, j + 1)
             /\ j > 1
             /\ (j = LitFrom(u) /\ LitPrefixed(u)) \/ (j > LitFrom(u) /\ IsLitDigit(u, j - 1))

RECURSIVE LitMagnitude(_, _)
LitMagnitude(u, j) ==
    IF j < LitFrom(u) THEN 0
    ELSE IF u[j] = "_" THEN LitMagnitude(u, j - 1)
         ELSE LitMagnitude(u, j - 1) * LitBase(u) + DigitVal(u[j])

GoIntLiteralValue(s) ==
    LET m == LitMagnitude(Unsigned(s), Len(Unsigned(s))) IN
    IF s[1] = "-" THEN -m ELSE m

SymbolicTokens == {earliestS, latestS, pendingS}

\* C7 as stated: earliest, latest and pending resolve to 0 and the two
\* sentinels, 0x10 resolves to 16, bogus is fatal, and a token that is
\* neither symbolic nor a decimal or 0x-prefixed hexadecimal integer is
\* fatal.
C7_OnlyDecimalOrHexAccepted ==
    (src = "cli" /\ bpc # "start") =>
        /\ tok = earliestS => Resolved /\ block = 0
        /\ tok = latestS => Resolved /\ block = Latest
        /\ tok = pendingS => Resolved /\ block = Pending
        /\ tok = hex10S => Resolved /\ block = 16
        /\ tok = bogusS => Fatal
        /\ (Resolved /\ tok \notin SymbolicTokens) => IsDecimalToken(tok) \/ IsHexToken(tok)

\* C7 as amended: a token that is not symbolic is accepted exactly when it
\* is an integer literal of the Go language with an optional sign, and it
\* resolves to the value of that literal.
C7_IntegerLiteralsAccepted ==
    (src = "cli" /\ bpc # "start") =>
        /\ tok = earliestS => Resolved /\ block = 0
        /\ tok = latestS => Resolved /\ block = Latest
        /\ tok = pendingS => Resolved /\ block = Pending
        /\ tok = hex10S => Resolved /\ block = 16
        /\ tok = bogusS => Fatal
        /\ tok \notin SymbolicTokens =>
              /\ Resolved <=> IsGoIntLiteral(tok)
              /\ Resolved => block = GoIntLiteralValue(tok)

C7_Witness ==
    /\ src = "cli"
    /\ bpc = "resolved"
    /\ tok = <<"0", "b", "1">>
    /\ block = 1

\* the text of a JSON number: "-" or nothing, then 0 or digits that do not
\* start with 0
IsJSONInteger(p) ==
    LET u == IF p # <<>> /\ p[1] = "-" THEN Tail(p) ELSE p IN
    /\ u # <<>>
    /\ \A j \in 1..Len(u) : IsDigit(u[j])
    /\ Len(u) > 1 => u[1] # "0"

RECURSIVE DecimalValue(_)
DecimalValue(u) ==
    IF u = <<>> THEN 0
    ELSE DecimalValue(SubSeq(u, 1, Len(u) - 1)) * 10 + DigitVal(u[Len(u)])

JSONIntegerValue(p) == IF p[1] = "-" THEN -DecimalValue(Tail(p)) ELSE DecimalValue(p)

pendingLiteral == <<"\"", "p", "e", "n", "d", "i", "n", "g", "\"">>
latestLiteral == <<"\"", "l", "a", "t", "e", "s", "t", "\"">>

\* C8: StorageAt sends eth_getStorageAt the address, the slot and the block,
\* the block being the string "pending" for the pending sentinel, the string
\* "latest" for the latest sentinel and otherwise the JSON number equal to
\* the selector.
C8_StorageAtBlockParameter ==
    bpc = "sent" =>
        /\ rpc.method = "eth_getStorageAt"
        /\ Len(rpc.params) = 3
        /\ rpc.params[1] = MarshalBytes(addr)
        /\ rpc.params[2] = MarshalBytes(offset)
        /\ block = Pending => rpc.params[3] = pendingLiteral
        /\ block = Latest => rpc.params[3] = latestLiteral
        /\ block \notin {Pending, Latest} =>
              IsJSONInteger(rpc.params[3]) /\ JSONIntegerValue(rpc.params[3]) = block

C8_Witness ==
    /\ bpc = "sent"
    /\ src = "lib"
    /\ block = Pending
    /\ rpc.params[3] = pendingLiteral

\* C10: a token other than latest and pending resolves to a block number
\* that is not negative, and StorageAt sends the string "latest" or
\* "pending" for the result of blocknum only when the token was that word.
C10_NumericTokenNeverSymbolic ==
    Resolved =>
        /\ tok \notin {latestS, pendingS} => block >= 0
        /\ (bpc = "sent" /\ rpc.params[3] \in {latestLiteral, pendingLiteral}) =>
              tok \in {latestS, pendingS}

===========================================================================
